---- MODULE Spec2Model ----
(***************************************************************************)
(* History-statistics sensor (history_stats.py).                           *)
(*                                                                         *)
(* The sensor keeps a resolved window _period and a reported value.  Each  *)
(* update cycle (async_update) renders the configured templates, resolves  *)
(* the window (update_period), and, once the warm-up time has passed,      *)
(* sweeps the history of the monitored entity to integrate the time spent  *)
(* in the target state.                                                    *)
(*                                                                         *)
(* Timestamps are integers (seconds).  A rendered template value is kept   *)
(* in half seconds so that math.floor(float(..)) is a real conversion.     *)
(* The reported value is kept in hundredths of an hour (round(x, 2)).      *)
(***************************************************************************)
EXTENDS Integers, Sequences, FiniteSets, TLC

VARIABLES config, phase, clock, init, period, value, last, template

vars == <<config, phase, clock, init, period, value, last, template>>

-----------------------------------------------------------------------------
(* Program constants *)

WARMING_TIME == 3

CONF_PERIOD_KEYS == {"start", "end", "duration"}

entity_state == "on"

(* Bounds of the model *)

MaxClock == 3

MaxEvents == 2

MaxTokens == 2

(* Rendered numeric values, in half seconds: 0 and 3600.5 *)
RenderedHalves == {0, 7201}

(* Values of an event: the entity's state and its last_changed timestamp *)
EventStates == {"on", "off"}

EventTimes == {1800, 3500, 5400}

-----------------------------------------------------------------------------
(* Optional integers: Python's None against an int *)

None == [some |-> FALSE, v |-> 0]

Some(n) == [some |-> TRUE, v |-> n]

(* What one template slot does in a cycle *)
Outcome(k, v) == [k |-> k, v |-> v]

NotConfigured == Outcome("not_configured", 0)

NotRendered == Outcome("not_rendered", 0)

RenderOutcomes ==
    {Outcome("undefined", 0), Outcome("template_error", 0), Outcome("not_numeric", 0)}
        \cup {Outcome("num", h) : h \in RenderedHalves}

SlotOutcomes(slot) == IF slot \in config THEN RenderOutcomes ELSE {NotConfigured}

(* get_state: the state at the window start, or None *)
NoState == "<none>"

NotQueried == "<not queried>"

StartStates == {NoState} \cup EventStates

Event(s, t) == [state |-> s, last_changed |-> t]

Events == {Event(s, t) : s \in EventStates, t \in EventTimes}

SeqsUpTo(S, n) == UNION {[1..k -> S] : k \in 0..n}

(* state_changes_during_period: the entity's key may be missing *)
HistoryList(present, items) == [queried |-> TRUE, present |-> present, items |-> items]

HistoryNotQueried == [queried |-> FALSE, present |-> FALSE, items |-> <<>>]

Ascending(items) ==
    \A i \in 1..(Len(items) - 1) : items[i].last_changed <= items[i + 1].last_changed

(* The store returns the entity's changes inside the queried period, in   *)
(* ascending time order; the entity's key is missing when it has nothing  *)
(* to report.                                                             *)
state_changes_during_period(start, end) ==
    LET during == {ev \in Events : start <= ev.last_changed /\ ev.last_changed <= end}
    IN  {HistoryList(FALSE, <<>>)}
            \cup {HistoryList(TRUE, s) : s \in {x \in SeqsUpTo(during, MaxEvents) : Ascending(x)}}

-----------------------------------------------------------------------------
(* parse_time_expr.  A template source is a sequence of tokens: the alias  *)
(* tokens, now(), .replace(field=int) calls and other text.                *)

AliasTokens ==
    {"_THIS_YEAR_", "_THIS_MONTH_", "_TODAY_", "_THIS_HOUR_", "_THIS_MINUTE_", "_NOW_"}

(* Tokens that match \.replace\([a-z]+=[0-9]+\) *)
ReplaceCalls ==
    {".replace(month=1)", ".replace(day=1)", ".replace(hour=0)", ".replace(minute=0)",
     ".replace(second=0)", ".replace(day=2)"}

TemplateTokens == AliasTokens \cup {"now()", ".replace(day=2)", " - 3600"}

TemplateSources == SeqsUpTo(TemplateTokens, MaxTokens)

Stage(old, new) == [old |-> old, new |-> new]

AliasStagesNowFirst ==
    << Stage("_NOW_", <<"now()">>),
       Stage("_THIS_MINUTE_", <<"_NOW_", ".replace(second=0)">>),
       Stage("_THIS_HOUR_", <<"_THIS_MINUTE_", ".replace(minute=0)">>),
       Stage("_TODAY_", <<"_THIS_HOUR_", ".replace(hour=0)">>),
       Stage("_THIS_MONTH_", <<"_TODAY_", ".replace(day=1)">>),
       Stage("_THIS_YEAR_", <<"_THIS_MONTH_", ".replace(month=1)">>) >>

AliasStages ==
    << Stage("_THIS_YEAR_", <<"_THIS_MONTH_", ".replace(month=1)">>),
       Stage("_THIS_MONTH_", <<"_TODAY_", ".replace(day=1)">>),
       Stage("_TODAY_", <<"_THIS_HOUR_", ".replace(hour=0)">>),
       Stage("_THIS_HOUR_", <<"_THIS_MINUTE_", ".replace(minute=0)">>),
       Stage("_THIS_MINUTE_", <<"_NOW_", ".replace(second=0)">>),
       Stage("_NOW_", <<"now()">>) >>

RECURSIVE str_replace(_, _, _)
str_replace(s, old, new) ==
    IF s = <<>>
    THEN <<>>
    ELSE (IF Head(s) = old THEN new ELSE <<Head(s)>>) \o str_replace(Tail(s), old, new)

RECURSIVE ReplaceAliases(_, _)
ReplaceAliases(s, i) ==
    IF i > Len(AliasStages)
    THEN s
    ELSE ReplaceAliases(str_replace(s, AliasStages[i].old, AliasStages[i].new), i + 1)

(* Length of the longest run of .replace(..) calls after the now() at the head *)
ChainLength(s) ==
    CHOOSE k \in 0..(Len(s) - 1) :
        /\ \A j \in 2..(k + 1) : s[j] \in ReplaceCalls
        /\ k + 2 <= Len(s) => s[k + 2] \notin ReplaceCalls

RECURSIVE re_sub(_)
re_sub(s) ==
    IF s = <<>>
    THEN <<>>
    ELSE IF Head(s) = "now()"
    THEN LET k == ChainLength(s)
         IN  <<"as_timestamp(">> \o SubSeq(s, 1, k + 1) \o <<")">>
                \o re_sub(SubSeq(s, k + 2, Len(s)))
    ELSE <<Head(s)>> \o re_sub(Tail(s))

parse_time_expr(str) == re_sub(ReplaceAliases(str, 1))

Template(raw, parsed) == [raw |-> raw, parsed |-> parsed]

-----------------------------------------------------------------------------
(* update_period *)

MathFloor(halves) == halves \div 2

TrySlot(o) == IF o.k = "num" THEN Some(MathFloor(o.v)) ELSE None

handle_template_exception_always_error(o) == "error"

handle_template_exception(o) == IF o.k = "undefined" THEN "warning" ELSE "error"

SlotLog(slot, o) ==
    IF o.k \in {"undefined", "template_error"}
    THEN <<[level |-> handle_template_exception(o), slot |-> slot]>>
    ELSE IF o.k = "not_numeric"
         THEN <<[level |-> "error", slot |-> slot]>>
         ELSE <<>>

NeedsDurationAlways(start, end) == TRUE

NeedsDuration(start, end) == ~(start.some /\ end.some)

AnchorStartOnly(start, duration) == <<Some(start), None>>

AnchorStart(start, duration) == <<Some(start), Some(start + duration)>>

AnchorEndForward(end, duration) == <<Some(end), Some(end + duration)>>

AnchorEnd(end, duration) == <<Some(end - duration), Some(end)>>

TruthyNotNone(start) == start.some

Truthy(start) == start.some /\ start.v # 0

Returned(p, log) == [period |-> p, exc |-> "none", log |-> log]

Raised(p, e, log) == [period |-> p, exc |-> e, log |-> log]

update_period(prev, rs, re, rd) ==
    LET start == TrySlot(rs)
        end == TrySlot(re)
        log2 == SlotLog("start", rs) \o SlotLog("end", re)
        duration == TrySlot(rd)
        log3 == log2 \o SlotLog("duration", rd)
    IN  IF ~NeedsDuration(start, end)
        THEN Returned(<<start, end>>, log2)
        ELSE IF rd.k = "not_configured"
        THEN Raised(prev, "AttributeError", log2)
        ELSE IF ~end.some /\ Truthy(start)
        THEN IF duration.some
             THEN Returned(AnchorStart(start.v, duration.v), log3)
             ELSE Raised(prev, "TypeError", log3)
        ELSE IF ~start.some
        THEN IF end.some /\ duration.some
             THEN Returned(AnchorEnd(end.v, duration.v), log3)
             ELSE Raised(prev, "TypeError", log3)
        ELSE Returned(prev, log3)

-----------------------------------------------------------------------------
(* async_update *)

WarmingNever(now) == FALSE

Warming(now) == now < WARMING_TIME + init

CyclePeriodWarmFirst(warm, prev, up) == IF warm THEN prev ELSE up.period

CyclePeriod(warm, prev, up) == up.period

EntityInHistoryAlways(h) == TRUE

EntityInHistoryNonEmpty(h) == h.present /\ h.items # <<>>

EntityInHistory(h) == h.present

RECURSIVE SweepReversed(_, _, _, _, _)
SweepReversed(items, i, last_state, last_time, elapsed) ==
    IF i > Len(items)
    THEN elapsed
    ELSE LET current_state == items[i].state = entity_state
             current_time == items[i].last_changed
         IN  SweepReversed(items, i + 1, current_state, current_time,
                   IF last_state THEN elapsed + (last_time - current_time) ELSE elapsed)

RECURSIVE SweepFromStart(_, _, _, _, _)
SweepFromStart(items, i, last_state, last_time, elapsed) ==
    IF i > Len(items)
    THEN elapsed
    ELSE LET current_state == items[i].state = entity_state
             current_time == items[i].last_changed
         IN  SweepFromStart(items, i + 1, current_state, last_time,
                   IF last_state THEN elapsed + (current_time - last_time) ELSE elapsed)

RECURSIVE Sweep(_, _, _, _, _)
Sweep(items, i, last_state, last_time, elapsed) ==
    IF i > Len(items)
    THEN elapsed
    ELSE LET current_state == items[i].state = entity_state
             current_time == items[i].last_changed
         IN  Sweep(items, i + 1, current_state, current_time,
                   IF last_state THEN elapsed + (current_time - last_time) ELSE elapsed)

ElapsedAnyStartState(items, start_timestamp, end_timestamp, s0) ==
    Sweep(items, 1, s0 # NoState, start_timestamp, 0)

ElapsedClampedToEnd(items, start_timestamp, end_timestamp, s0) ==
    Sweep(Append(items, Event("off", end_timestamp)), 1,
          s0 # NoState /\ s0 = entity_state, start_timestamp, 0)

ElapsedCarried(items, start_timestamp, end_timestamp, s0) ==
    Sweep(items, 1, s0 # NoState /\ s0 = entity_state, start_timestamp, value * 36)

Elapsed(items, start_timestamp, end_timestamp, s0) ==
    Sweep(items, 1, s0 # NoState /\ s0 = entity_state, start_timestamp, 0)

(* round(elapsed / 3600, 2), in hundredths of an hour.  A tie needs       *)
(* elapsed = 18 (mod 36), which no timestamp that is a multiple of four   *)
(* produces.                                                              *)
Round2(elapsed) ==
    LET n == elapsed * 100
        q == n \div 3600
        r == n % 3600
    IN  IF 2 * r < 3600 THEN q
        ELSE IF 2 * r > 3600 THEN q + 1
        ELSE IF q % 2 = 0 THEN q ELSE q + 1

(* state_attributes: formats both ends of _period *)
state_attributes(p) == IF p[1].some /\ p[2].some THEN "ok" ELSE "TypeError"

ReachesHistory(up) ==
    /\ up.exc = "none"
    /\ up.period[1].some /\ up.period[2].some
    /\ ~Warming(clock)

Observed(rs, re, rd, up, exc, h, s0, calls, computed, elapsed) ==
    [ran |-> TRUE, rs |-> rs, re |-> re, rd |-> rd, warm |-> Warming(clock),
     upExc |-> up.exc, exc |-> exc, log |-> up.log, hist |-> h, s0 |-> s0, calls |-> calls,
     computed |-> computed, elapsed |-> elapsed]

NoCycle ==
    [ran |-> FALSE, rs |-> NotRendered, re |-> NotRendered, rd |-> NotRendered,
     warm |-> FALSE, upExc |-> "none", exc |-> "none", log |-> <<>>, hist |-> HistoryNotQueried,
     s0 |-> NotQueried, calls |-> <<>>, computed |-> FALSE, elapsed |-> 0]

Finish(rs, re, rd, up, h, s0) ==
    IF up.exc # "none"
    THEN /\ period' = period
         /\ value' = value
         /\ last' = Observed(rs, re, rd, up, up.exc, h, s0, <<>>, FALSE, 0)
    ELSE LET p == CyclePeriod(Warming(clock), period, up) IN
         IF ~(p[1].some /\ p[2].some)
         THEN /\ period' = p
              /\ value' = value
              /\ last' = Observed(rs, re, rd, up, "TypeError", h, s0, <<>>, FALSE, 0)
         ELSE IF ~h.queried
         THEN /\ period' = p
              /\ value' = value
              /\ last' = Observed(rs, re, rd, up, "none", h, s0, <<>>, FALSE, 0)
         ELSE IF ~EntityInHistory(h)
         THEN /\ period' = p
              /\ value' = value
              /\ last' = Observed(rs, re, rd, up, "none", h, s0,
                                  <<"state_changes_during_period">>, FALSE, 0)
         ELSE LET e == Elapsed(h.items, p[1].v, p[2].v, s0) IN
              /\ period' = p
              /\ value' = Round2(e)
              /\ last' = Observed(rs, re, rd, up, "none", h, s0,
                                  <<"state_changes_during_period", "get_state">>, TRUE, e)

-----------------------------------------------------------------------------
(* The state machine *)

Configured ==
    /\ config \in SUBSET CONF_PERIOD_KEYS
    /\ phase = "config"
    /\ clock = 0
    /\ init = 0
    /\ period = <<None, None>>
    /\ value = 0
    /\ last = NoCycle

Init ==
    /\ Configured
    /\ template = Template(<<"_TODAY_">>, <<>>)

(* Setup alone, over every template source *)
InitSetup ==
    /\ Configured
    /\ template \in {Template(raw, <<>>) : raw \in TemplateSources}

SetupValidAtLeastTwo ==
    ~(("start" \notin config /\ "end" \notin config)
      \/ ("start" \notin config /\ "duration" \notin config)
      \/ ("end" \notin config /\ "duration" \notin config))

SetupValid ==
    /\ ~(("start" \notin config /\ "end" \notin config)
         \/ ("start" \notin config /\ "duration" \notin config)
         \/ ("end" \notin config /\ "duration" \notin config))
    /\ ~("start" \in config /\ "end" \in config /\ "duration" \in config)

async_setup_platform ==
    /\ phase = "config"
    /\ SetupValid
    /\ phase' = "running"
    /\ init' = clock
    /\ period' = <<None, None>>
    /\ value' = 0
    /\ template' = Template(template.raw, parse_time_expr(template.raw))
    /\ UNCHANGED <<config, clock, last>>

async_setup_platform_abort ==
    /\ phase = "config"
    /\ ~SetupValid
    /\ phase' = "aborted"
    /\ UNCHANGED <<config, clock, init, period, value, last, template>>

Tick ==
    /\ phase = "running"
    /\ clock < MaxClock
    /\ clock' = clock + 1
    /\ UNCHANGED <<config, phase, init, period, value, last, template>>

async_update ==
    /\ phase = "running"
    /\ \E rs \in SlotOutcomes("start"), re \in SlotOutcomes("end") :
         \E rd \in (IF NeedsDuration(TrySlot(rs), TrySlot(re))
                    THEN SlotOutcomes("duration") ELSE {NotRendered}) :
           LET up == update_period(period, rs, re, rd) IN
           \E h \in (IF ReachesHistory(up)
                    THEN state_changes_during_period(up.period[1].v, up.period[2].v)
                    ELSE {HistoryNotQueried}) :
             \E s0 \in (IF h.queried /\ EntityInHistory(h) THEN StartStates ELSE {NotQueried}) :
               Finish(rs, re, rd, up, h, s0)
    /\ UNCHANGED <<config, phase, clock, init, template>>

Next ==
    \/ async_setup_platform
    \/ async_setup_platform_abort
    \/ Tick
    \/ async_update

Spec == Init /\ [][Next]_vars

NextSetup ==
    \/ async_setup_platform
    \/ async_setup_platform_abort

SpecSetup == InitSetup /\ [][NextSetup]_vars

-----------------------------------------------------------------------------
(* Vocabulary of the properties *)

(* A step that is one update cycle; last' then describes that cycle *)
IsCycle == phase = "running" /\ clock' = clock

IsNum(o) == o.k = "num"

Failed(o) == o.k \in {"undefined", "template_error", "not_numeric"}

Ts(o) == o.v \div 2

Window(s, e) == <<[some |-> TRUE, v |-> s], [some |-> TRUE, v |-> e]>>

Unset == <<[some |-> FALSE, v |-> 0], [some |-> FALSE, v |-> 0]>>

InWarmUp == clock < init + 3

(* The sweep of the specification, summed segment by segment from the right *)
RefState(items, i, s0) == IF i = 0 THEN s0 = "on" ELSE items[i].state = "on"

RefTime(items, i, start) == IF i = 0 THEN start ELSE items[i].last_changed

RECURSIVE RefSweep(_, _, _, _)
RefSweep(items, n, start, s0) ==
    IF n = 0
    THEN 0
    ELSE RefSweep(items, n - 1, start, s0)
            + (IF RefState(items, n - 1, s0)
               THEN RefTime(items, n, start) - RefTime(items, n - 1, start)
               ELSE 0)

LastTurnedOff(items) ==
    [i \in 1..Len(items) |->
        IF i = Len(items) THEN [items[i] EXCEPT !.state = "off"] ELSE items[i]]

-----------------------------------------------------------------------------
(* C1: no error propagates out of an update cycle: every cycle, from every *)
(* reachable sensor state and for every render and history outcome,        *)
(* completes normally.                                                     *)
C1_NoErrorPropagates == last.ran => last.exc = "none"

(* C2: whenever a rendered slot fails (template error or non-numeric       *)
(* value), update_period returns normally and leaves _period as it was.    *)
C2_RenderFailureNeverRaises ==
    [][IsCycle /\ (Failed(last'.rs) \/ Failed(last'.re) \/ Failed(last'.rd))
          => last'.upExc = "none" /\ period' = period]_vars

(* C3 (as stated): during the warm-up time an update cycle leaves _period  *)
(* as it was.                                                              *)
C3_WarmUpKeepsWindow == [][IsCycle /\ InWarmUp => period' = period]_vars

(* C3 (amended): during the warm-up time an update cycle still resolves    *)
(* the window, because update_period runs before the warm-up test: the     *)
(* stored window after the cycle is (start, end), (start, start+duration)  *)
(* or (end-duration, end) according to the slots that rendered.            *)
C3_WarmUpResolvesWindow ==
    last.ran /\ InWarmUp =>
        /\ IsNum(last.rs) /\ IsNum(last.re)
              => period = Window(Ts(last.rs), Ts(last.re))
        /\ IsNum(last.rs) /\ Ts(last.rs) # 0 /\ ~IsNum(last.re) /\ IsNum(last.rd)
              => period = Window(Ts(last.rs), Ts(last.rs) + Ts(last.rd))
        /\ ~IsNum(last.rs) /\ IsNum(last.re) /\ IsNum(last.rd)
              => period = Window(Ts(last.re) - Ts(last.rd), Ts(last.re))

C3_Witness ==
    /\ last.ran /\ InWarmUp /\ last.exc = "none"
    /\ IsNum(last.rs) /\ IsNum(last.re)
    /\ period = Window(3600, 0)

(* C4: during the warm-up time an update cycle makes no history lookup     *)
(* (neither state_changes_during_period nor get_state) and leaves the      *)
(* reported value unchanged.                                               *)
C4_WarmUpNoHistory ==
    [][IsCycle /\ InWarmUp => last'.calls = <<>> /\ value' = value]_vars

C4_Witness ==
    /\ last.ran /\ InWarmUp /\ last.exc = "none"
    /\ period # Unset /\ last.calls = <<>> /\ value = 0

(* C5 (as stated): if the entity has no events in the window, or is absent *)
(* from the history result, the cycle does not change the reported value.  *)
C5_NoEventsKeepsValue ==
    [][IsCycle /\ last'.hist.queried
              /\ (~last'.hist.present \/ last'.hist.items = <<>>)
          => value' = value]_vars

(* C5 (amended): if the entity is absent from the history result, the      *)
(* cycle does not change the reported value.                               *)
C5_AbsentKeepsValue ==
    [][IsCycle /\ last'.hist.queried /\ ~last'.hist.present => value' = value]_vars

C5_Witness ==
    /\ last.ran /\ last.exc = "none"
    /\ last.hist.queried /\ ~last.hist.present
    /\ value # 0

(* C6: for every ascending event sequence, window start and state at the   *)
(* window start, the elapsed seconds of the cycle equal the reference      *)
(* sweep; window (0,3600), state "on" at the start and events              *)
(* [("off",1800)] give 1800 seconds.                                       *)
C6_ElapsedIsReferenceSweep ==
    last.computed /\ Ascending(last.hist.items) =>
        /\ last.elapsed
              = RefSweep(last.hist.items, Len(last.hist.items), period[1].v, last.s0)
        /\ (period = Window(0, 3600) /\ last.s0 = "on"
              /\ last.hist.items = <<[state |-> "off", last_changed |-> 1800]>>)
              => last.elapsed = 1800

C6_Witness ==
    /\ last.computed
    /\ period = Window(0, 3600) /\ last.s0 = "on"
    /\ last.hist.items = <<[state |-> "off", last_changed |-> 1800]>>
    /\ last.elapsed = 1800 /\ value = 50

(* C7: the trailing open segment is never counted: the elapsed seconds are *)
(* those of the same events with the last one turned to a non-target       *)
(* state, so nothing after the last event is added even when it puts the   *)
(* entity in the target state.                                             *)
C7_TrailingSegmentDropped ==
    last.computed /\ last.hist.items # <<>> =>
        last.elapsed
          = RefSweep(LastTurnedOff(last.hist.items), Len(last.hist.items),
                     period[1].v, last.s0)

C7_Witness ==
    /\ last.computed /\ last.hist.items # <<>>
    /\ last.hist.items[Len(last.hist.items)].state = "on"
    /\ last.hist.items[Len(last.hist.items)].last_changed < period[2].v
    /\ last.elapsed = 0

(* C8: when the history result holds the entity with an empty event        *)
(* sequence, elapsed is 0 and the reported value becomes 0.0, whatever the *)
(* state at the window start.                                              *)
C8_EmptyEventsGiveZero ==
    last.ran /\ last.hist.queried /\ last.hist.present /\ last.hist.items = <<>> =>
        last.computed /\ last.elapsed = 0 /\ value = 0

C8_Witness ==
    /\ last.computed /\ last.hist.present /\ last.hist.items = <<>>
    /\ last.s0 = "on" /\ period = Window(0, 3600)
    /\ value = 0

(* C9: when start and end both render in a cycle, the stored window        *)
(* becomes exactly (start, end) and duration is not rendered in that       *)
(* cycle.                                                                  *)
C9_StartEndTakePriority ==
    last.ran /\ IsNum(last.rs) /\ IsNum(last.re) =>
        /\ period = Window(Ts(last.rs), Ts(last.re))
        /\ last.rd.k = "not_rendered"

C9_Witness ==
    /\ last.ran /\ IsNum(last.rs) /\ IsNum(last.re)
    /\ period = Window(0, 3600)
    /\ last.rd.k = "not_rendered"

(* C10: when exactly one boundary resolves and duration resolves, the      *)
(* window is anchored at that boundary: a non-zero start with end          *)
(* unresolved gives (start, start + duration); start unresolved with end   *)
(* resolved gives (end - duration, end).                                   *)
C10_AnchoredWindow ==
    last.ran =>
        /\ IsNum(last.rs) /\ Ts(last.rs) # 0 /\ ~IsNum(last.re) /\ IsNum(last.rd)
              => period = Window(Ts(last.rs), Ts(last.rs) + Ts(last.rd))
        /\ ~IsNum(last.rs) /\ IsNum(last.re) /\ IsNum(last.rd)
              => period = Window(Ts(last.re) - Ts(last.rd), Ts(last.re))

C10_Witness ==
    /\ last.ran /\ ~IsNum(last.rs) /\ IsNum(last.re) /\ IsNum(last.rd)
    /\ Ts(last.rd) # 0
    /\ period = Window(0, 3600)

(* C11: zero-start quirk: when start renders to 0 and end is unresolved,   *)
(* update_period returns without raising and leaves _period as it was,    *)
(* for every duration outcome.                                             *)
C11_ZeroStartKeepsWindow ==
    [][IsCycle /\ IsNum(last'.rs) /\ Ts(last'.rs) = 0 /\ ~IsNum(last'.re)
          => last'.upExc = "none" /\ period' = period]_vars

(* C12: the reported value is non-negative in every reachable state; the   *)
(* history store hands over events in ascending order, none earlier than   *)
(* the queried window start.                                               *)
C12_ValueNonNegative ==
    /\ value >= 0
    /\ last.computed => last.elapsed >= 0

C12_Witness ==
    /\ last.computed /\ Len(last.hist.items) = 2
    /\ last.hist.items[1].last_changed < last.hist.items[2].last_changed
    /\ last.elapsed > 0 /\ value > 0

(* C13: async_setup_platform aborts before creating a sensor unless        *)
(* exactly two of start, end and duration are present: no sensor exists    *)
(* with zero, one or three configured slots, and every configuration with  *)
(* exactly two gets its sensor.                                            *)
C13_ExactlyTwoSlots ==
    /\ phase = "running" => Cardinality(config) = 2
    /\ phase = "aborted" => Cardinality(config) # 2

C13_Witness == phase = "aborted" /\ config = {"start", "end", "duration"}

(* C14: a template error with the recognised "undefined/None attribute"    *)
(* prefix is logged at warning level, any other template error at error    *)
(* level, and in both cases the slot stays unresolved for the cycle: the   *)
(* handler returns and no window is stored from it.                        *)
LoggedAt(slot, level) ==
    /\ \E i \in 1..Len(last'.log) : last'.log[i] = [level |-> level, slot |-> slot]
    /\ \A i \in 1..Len(last'.log) : last'.log[i].slot = slot => last'.log[i].level = level

SlotHandled(o, slot) ==
    /\ o.k = "undefined" => LoggedAt(slot, "warning") /\ period' = period
    /\ o.k = "template_error" => LoggedAt(slot, "error") /\ period' = period

C14_TemplateErrorLogged ==
    [][IsCycle => /\ SlotHandled(last'.rs, "start")
                  /\ SlotHandled(last'.re, "end")
                  /\ SlotHandled(last'.rd, "duration")]_vars

C14_Witness ==
    /\ last.ran
    /\ last.rs.k = "undefined" /\ last.rd.k = "template_error"
    /\ last.log = <<[level |-> "warning", slot |-> "start"],
                    [level |-> "error", slot |-> "duration"]>>
    /\ period = Unset

(* C16 (as stated): after any cycle that overwrites the value, the elapsed *)
(* seconds are at most end_ts - start_ts of the window used, the events    *)
(* being ascending and inside the window.                                  *)
C16_ElapsedWithinWindow ==
    last.computed => last.elapsed <= period[2].v - period[1].v

(* C16 (amended): the same, for a window with start_ts <= end_ts.          *)
C16_ElapsedWithinOrderedWindow ==
    last.computed /\ period[1].v <= period[2].v
        => last.elapsed <= period[2].v - period[1].v

C16_Witness ==
    /\ last.computed /\ period = Window(0, 3600)
    /\ Len(last.hist.items) = 2 /\ last.hist.items[2].last_changed = 3500
    /\ last.elapsed = 3500

(* C17: the window is set atomically: the two components of _period are    *)
(* both unset or both integers in every reachable state, and after a cycle *)
(* that completes normally both are integers, so that state_attributes     *)
(* can be read.                                                            *)
C17_WindowAtomic ==
    /\ period[1].some <=> period[2].some
    /\ last.ran /\ last.exc = "none"
          => period[1].some /\ period[2].some /\ state_attributes(period) = "ok"

C17_Witness ==
    /\ last.ran /\ last.exc = "none" /\ InWarmUp
    /\ IsNum(last.rs) /\ IsNum(last.rd)
    /\ period = Window(3600, 7200)
    /\ state_attributes(period) = "ok"

(* C18: a stale window is still used: after warm-up, a cycle in which      *)
(* start renders to 0 with end unresolved keeps the previous window,       *)
(* queries history over it and, when the entity is in the result,          *)
(* overwrites the value with the time elapsed over that previous window.   *)
NearestHundredth(v, elapsed) ==
    /\ 2 * (3600 * v - 100 * elapsed) <= 3600
    /\ 2 * (100 * elapsed - 3600 * v) <= 3600

C18_StaleWindowUsed ==
    [][IsCycle /\ ~InWarmUp /\ period # Unset
          /\ IsNum(last'.rs) /\ Ts(last'.rs) = 0 /\ ~IsNum(last'.re)
          /\ last'.upExc = "none" /\ last'.hist.present
          => /\ period' = period
             /\ last'.calls = <<"state_changes_during_period", "get_state">>
             /\ \A i \in 1..Len(last'.hist.items) :
                    /\ period[1].v <= last'.hist.items[i].last_changed
                    /\ last'.hist.items[i].last_changed <= period[2].v
             /\ last'.computed
             /\ last'.elapsed = RefSweep(last'.hist.items, Len(last'.hist.items),
                                         period[1].v, last'.s0)
             /\ NearestHundredth(value', last'.elapsed)]_vars

C18_Witness ==
    /\ last.computed /\ ~InWarmUp
    /\ IsNum(last.rs) /\ Ts(last.rs) = 0 /\ last.re.k = "not_configured"
    /\ period = Window(3600, 7200)
    /\ last.hist.items = <<[state |-> "off", last_changed |-> 5400]>>
    /\ last.s0 = "on" /\ last.elapsed = 1800 /\ value = 50

(* C19: update cycles do not accumulate: after warm-up a cycle with the    *)
(* same rendered slot values, history result and state at the window       *)
(* start as the cycle before it leaves the window and the value as they    *)
(* were, and a cycle that resolves the window and finds the entity in the  *)
(* history result yields a window and a value given by its inputs alone.   *)
Resolves(o) ==
    \/ IsNum(o.rs) /\ IsNum(o.re)
    \/ IsNum(o.rs) /\ Ts(o.rs) # 0 /\ ~IsNum(o.re) /\ IsNum(o.rd)
    \/ ~IsNum(o.rs) /\ IsNum(o.re) /\ IsNum(o.rd)

ResolvedWindow(o) ==
    IF IsNum(o.rs) /\ IsNum(o.re) THEN Window(Ts(o.rs), Ts(o.re))
    ELSE IF IsNum(o.rs) THEN Window(Ts(o.rs), Ts(o.rs) + Ts(o.rd))
    ELSE Window(Ts(o.re) - Ts(o.rd), Ts(o.re))

SameInputs(a, b) ==
    /\ a.rs = b.rs /\ a.re = b.re /\ a.rd = b.rd
    /\ a.hist = b.hist /\ a.s0 = b.s0

C19_CyclesDoNotAccumulate ==
    [][IsCycle =>
         /\ last.ran /\ ~last.warm /\ SameInputs(last', last)
               => period' = period /\ value' = value
         /\ last'.computed /\ Resolves(last')
               => /\ period' = ResolvedWindow(last')
                  /\ last'.elapsed = RefSweep(last'.hist.items, Len(last'.hist.items),
                                              ResolvedWindow(last')[1].v, last'.s0)
                  /\ NearestHundredth(value', last'.elapsed)]_vars

C19_Witness ==
    /\ last.computed /\ ~last.warm /\ Resolves(last)
    /\ period = ResolvedWindow(last)
    /\ last.elapsed = 1700 /\ value = 47

(* C15 (as stated): for each of the six alias tokens parse_time_expr       *)
(* leaves no alias token and yields a single as_timestamp(...) call around *)
(* a replace chain rooted at now(); for "_TODAY_" the result is            *)
(* as_timestamp(now().replace(hour=0).replace(minute=0).replace(second=0)) *)
IsAlias(tok) ==
    tok \in {"_THIS_YEAR_", "_THIS_MONTH_", "_TODAY_", "_THIS_HOUR_", "_THIS_MINUTE_", "_NOW_"}

IsChainCall(tok) ==
    tok \in {".replace(month=1)", ".replace(day=1)", ".replace(hour=0)",
             ".replace(minute=0)", ".replace(second=0)"}

WrappedOnce(p) ==
    /\ Len(p) >= 3
    /\ \A i \in 1..Len(p) : ~IsAlias(p[i])
    /\ p[1] = "as_timestamp(" /\ p[2] = "now()" /\ p[Len(p)] = ")"
    /\ \A i \in 3..(Len(p) - 1) : IsChainCall(p[i])

SingleAliasParsed ==
    phase = "running" /\ Len(template.raw) = 1 /\ IsAlias(template.raw[1])

C15_AliasExpansionHourFirst ==
    SingleAliasParsed =>
        /\ WrappedOnce(template.parsed)
        /\ template.raw = <<"_TODAY_">>
              => template.parsed = <<"as_timestamp(", "now()", ".replace(hour=0)",
                                     ".replace(minute=0)", ".replace(second=0)", ")">>

(* C15 (amended): the same, the chain for "_TODAY_" being in the order the *)
(* stages append it:                                                       *)
(* as_timestamp(now().replace(second=0).replace(minute=0).replace(hour=0)) *)
C15_AliasExpansion ==
    SingleAliasParsed =>
        /\ WrappedOnce(template.parsed)
        /\ template.raw = <<"_TODAY_">>
              => template.parsed = <<"as_timestamp(", "now()", ".replace(second=0)",
                                     ".replace(minute=0)", ".replace(hour=0)", ")">>

C15_Witness ==
    /\ phase = "running" /\ template.raw = <<"_THIS_YEAR_">>
    /\ template.parsed = <<"as_timestamp(", "now()", ".replace(second=0)",
                           ".replace(minute=0)", ".replace(hour=0)",
                           ".replace(day=1)", ".replace(month=1)", ")">>

====
